---- MODULE Spec2Model ----
(***************************************************************************)
(* License tracking engine of license_tracker.py: admin bootstrap and      *)
(* authentication, commercial and regular license issuance, verification,  *)
(* activation and revocation over two JSON record stores.                  *)
(*                                                                         *)
(* Python strings are sequences of one-character strings, so that          *)
(* `password + salt` is sequence concatenation.  The clock unit is one     *)
(* day: every datetime.now() read inside one handler returns `now`.        *)
(***************************************************************************)
EXTENDS Integers, Sequences, FiniteSets, TLC

\* ------------------------------------------------------------------ bounds
MaxClock == 2
MaxDays == 1
MaxInstances == 2
NumThreads == 2
MaxBatch == 1

\* ------------------------------------------------------------ Python values
\* None where a str is expected, and None where an identifier is expected.
None == <<"None">>
NoneId == "None"

\* bool(x) of an Optional[str]: None and "" are falsy.
Truthy(s) == s # None /\ s # <<>>

EmptyDict == [k \in {} |-> 0]

\* d[k] = v
Put(d, k, v) == (k :> v) @@ d

\* LicenseType and LicenseStatus values.
COMMERCIAL == "commercial"
REGULAR == "regular"
VALID == "valid"
INVALID == "invalid"
EXPIRED == "expired"
NOT_FOUND == "not_found"

\* Every member of an Enum without __bool__ is truthy.
EnumTruthy(member) == TRUE

\* ------------------------------------------------------------ input domains
UserA == <<"a">>
UserB == <<"b">>
PassP == <<"p">>
PassQ == <<"q">>

\* secrets.token_hex(16): the salts the generator can draw.
Salts == {<<"0">>}

\* secrets.token_urlsafe(16): the plaintext passwords the generator can draw.
Passwords == {PassP, PassQ}

\* "AI-INV-" + uuid4().hex[:12].upper(): the identifiers the generator can draw.
LicenseIds == {"AI-INV-1"}

\* "REG-" + uuid4().hex[:12].upper()
RegularCodes == {"REG-1"}

\* Identifiers a caller may present (one of them never issued).
AskedIds == LicenseIds \cup {"AI-INV-X"}
AskedCodes == RegularCodes \cup {"REG-X"}

\* (admin_username, admin_password) pairs a caller may present.
AdminCreds == {<<None, None>>, <<UserA, PassP>>, <<UserA, PassQ>>, <<UserB, PassP>>}

\* (username, password) pairs of direct _verify_admin calls.
VerifyAdminCalls == AdminCreds \cup {<<UserA, None>>, <<UserA, <<>>>>}

\* What the operator types at the two prompts of _setup_admin, after strip().
SetupInputs == {<<UserA, PassP>>, <<<<>>, PassP>>}

Company == <<"c">>
Email == <<"e">>
UseCase == <<"u">>

IssueArgs(c, e, u, d, m, ty) ==
    [company_name |-> c, contact_email |-> e, commercial_use_case |-> u,
     expiration_days |-> d, max_instances |-> m, license_type |-> ty]

ValidIssueInputs ==
    {IssueArgs(Company, Email, UseCase, MaxDays, m, COMMERCIAL) : m \in 1..MaxInstances}
    \cup {IssueArgs(Company, Email, UseCase, 1, 1, REGULAR)}

InvalidIssueInputs ==
    {IssueArgs(<<>>, Email, UseCase, 1, 1, COMMERCIAL),
     IssueArgs(Company, <<>>, UseCase, 1, 1, COMMERCIAL),
     IssueArgs(Company, Email, <<>>, 1, 1, COMMERCIAL),
     IssueArgs(Company, Email, UseCase, 0, 1, COMMERCIAL),
     IssueArgs(Company, Email, UseCase, 1, 0, COMMERCIAL)}

\* issue_license calls: every input under the credentials _setup_admin can
\* store, and one valid input under each of the other credentials.
IssueCalls ==
    {<<a, <<UserA, PassP>>>> : a \in ValidIssueInputs \cup InvalidIssueInputs}
    \cup {<<IssueArgs(Company, Email, UseCase, 1, 1, COMMERCIAL), c>> : c \in AdminCreds}

\* issue_regular_license calls: every expiration_days under the credentials
\* _setup_admin can store, and the default under each of the other credentials.
RegularIssueCalls ==
    {<<d, <<UserA, PassP>>>> : d \in 0..MaxDays} \cup {<<1, c>> : c \in AdminCreds}

\* revoke_license / revoke_regular_license calls on identifier set ids.
RevokeCalls(ids, unknown) ==
    {<<i, <<UserA, PassP>>>> : i \in ids \cup {unknown}}
    \cup {<<i, c>> : i \in ids, c \in AdminCreds}

\* instance_identifier values a caller may present to activate_license.
InstanceIds == {None, <<"i">>}

\* Passwords a caller may present to verify_license / activate_license.
AskedPasswords == {None, <<>>, PassP, PassQ}

\* ------------------------------------------------------------------- state
VARIABLES
    admin_credentials,  \* licenses/admin_credentials.json: <<>> (no file) or <<record>>
    license_database,   \* licenses/commercial_licenses.json: [licenses, metadata]
    regular_database,   \* licenses/regular_licenses.json: [licenses]
    now,                \* datetime.now(), in days
    call,               \* the last call: its name and arguments
    ret,                \* what the last call returned (or raised)
    emitted,            \* the audit events the last call appended to the admin log
    revoked_ok,         \* identifiers for which a revoke call has returned True
    activated_ok,       \* per identifier, the activate calls that returned True since
                        \* the record was issued
    pc,                 \* per thread, where its activate_license call stands
    frame,              \* per thread, the locals of its activate_license call
    result,             \* per thread, what its last call returned
    io_fault,           \* what the file system does to the stores' files: "none",
                        \* "read" (open/json.load raises) or "write" (open raises)
    exported            \* licenses/commercial_licenses.xlsx: the rows written, <<>> (no
                        \* file) or <<rows>>

vars == <<admin_credentials, license_database, regular_database, now, call, ret,
          emitted, revoked_ok, activated_ok, pc, frame, result, io_fault, exported>>

\* The state of the threads.
threads == <<pc, frame, result>>

stores == <<license_database, regular_database>>

\* ---------------------------------------------------------------- hashing
\* hashlib.sha256(m).hexdigest(): collision-free, so a digest is its message
\* under a tag.
Sha256Hex(m) == <<"sha256">> \o m

\* _hash_password(password, salt) with the salt given: (hash, salt).
hash_password(password, salt) == <<Sha256Hex(password \o salt), salt>>

\* How a call ended: the exception it raised ("none" for a return) and the
\* value it returned.
Outcome(exception, value) == [raised |-> exception, value |-> value]

\* One logging call: level and message.
Event(level, msg, args) == [level |-> level, msg |-> msg, args |-> args]

\* ------------------------------------------------------- admin credentials
\* str(e) of the TypeError that None + salt raises in _hash_password.
TypeErrorText == <<"unsupported operand type(s) for +: 'NoneType' and 'str'">>

\* An authentication that never compares the username.
verify_admin_any_username(creds, username, password) ==
    IF creds = <<>>
    THEN [ok |-> FALSE, events |-> <<>>]
    ELSE IF password = None
    THEN [ok |-> FALSE,
          events |-> <<Event("ERROR", "Admin verification error", <<TypeErrorText>>)>>]
    ELSE IF hash_password(password, creds[1].salt)[1] # creds[1].password_hash
    THEN [ok |-> FALSE,
          events |-> <<Event("WARNING", "Failed admin login attempt: wrong password for",
                             <<username>>)>>]
    ELSE [ok |-> TRUE, events |-> <<Event("INFO", "Admin authenticated", <<username>>)>>]

\* _verify_admin(username, password): the result and the events it logs.
verify_admin(creds, username, password) ==
    IF creds = <<>>
    THEN [ok |-> FALSE, events |-> <<>>]
    ELSE LET admin_data == creds[1] IN
         IF admin_data.username # username
         THEN [ok |-> FALSE,
               events |-> <<Event("WARNING", "Failed admin login attempt: wrong username",
                                  <<username>>)>>]
         ELSE IF password = None
         THEN \* None + str raises TypeError inside the try block
              [ok |-> FALSE,
               events |-> <<Event("ERROR", "Admin verification error", <<TypeErrorText>>)>>]
         ELSE IF hash_password(password, admin_data.salt)[1] # admin_data.password_hash
         THEN [ok |-> FALSE,
               events |-> <<Event("WARNING", "Failed admin login attempt: wrong password for",
                                  <<username>>)>>]
         ELSE [ok |-> TRUE,
               events |-> <<Event("INFO", "Admin authenticated", <<username>>)>>]

\* A bootstrap that writes the record whether or not one exists.
setup_admin_overwrite(creds, t, admin_user, admin_pass, salt) ==
    IF ~Truthy(admin_user) \/ ~Truthy(admin_pass)
    THEN [creds |-> creds, ret |-> <<None, None>>, events |-> <<>>]
    ELSE LET hp == hash_password(admin_pass, salt) IN
         [creds |-> <<[username |-> admin_user, password_hash |-> hp[1],
                       salt |-> hp[2], created |-> t]>>,
          ret |-> <<admin_user, admin_pass>>,
          events |-> <<Event("INFO", "Admin initialized", <<admin_user>>)>>]

\* _setup_admin(): the two prompts answer admin_user and admin_pass, the
\* generator draws salt.
setup_admin(creds, t, admin_user, admin_pass, salt) ==
    IF creds # <<>>
    THEN [creds |-> creds, ret |-> <<None, None>>, events |-> <<>>]
    ELSE IF ~Truthy(admin_user) \/ ~Truthy(admin_pass)
    THEN [creds |-> creds, ret |-> <<None, None>>, events |-> <<>>]
    ELSE LET hp == hash_password(admin_pass, salt) IN
         [creds |-> <<[username |-> admin_user, password_hash |-> hp[1],
                       salt |-> hp[2], created |-> t]>>,
          ret |-> <<admin_user, admin_pass>>,
          events |-> <<Event("INFO", "Admin initialized", <<admin_user>>)>>]

SetupAdmin ==
    \E inp \in SetupInputs, salt \in Salts :
        LET r == setup_admin(admin_credentials, now, inp[1], inp[2], salt) IN
        /\ call' = [name |-> "_setup_admin", admin_user |-> inp[1],
                    admin_pass |-> inp[2]]
        /\ ret' = Outcome("none", r.ret)
        /\ emitted' = r.events
        /\ admin_credentials' = r.creds
        /\ UNCHANGED <<license_database, regular_database, now, revoked_ok,
                       activated_ok, threads, io_fault, exported>>

\* A direct call of _verify_admin(username, password).
VerifyAdmin ==
    \E c \in VerifyAdminCalls :
        LET r == verify_admin(admin_credentials, c[1], c[2]) IN
        /\ call' = [name |-> "_verify_admin", username |-> c[1], password |-> c[2]]
        /\ ret' = Outcome("none", r.ok)
        /\ emitted' = r.events
        /\ UNCHANGED <<admin_credentials, license_database, regular_database, now,
                       revoked_ok, activated_ok, threads, io_fault, exported>>

\* ------------------------------------------------------ commercial store
\* _load_licenses(): the content of the file; {"licenses": {}, "metadata": {}}
\* when there is none or when reading it raises.
load_licenses(db) ==
    IF io_fault = "read"
    THEN [licenses |-> EmptyDict, metadata |-> EmptyDict]
    ELSE db

\* _save_licenses(data): the file after json.dump(data); an exception of the
\* write is caught and printed, and the file stays as it was.
save_licenses(db, data) == IF io_fault = "write" THEN db ELSE data

\* A range test that lets zero through.
out_of_range_below_zero(expiration_days, max_instances) ==
    expiration_days < 0 \/ max_instances < 0

\* issue_license's range test on expiration_days and max_instances.
out_of_range(expiration_days, max_instances) ==
    expiration_days < 1 \/ max_instances < 1

\* The record issue_license builds and the data it has in memory before the
\* save: the loaded data with the record put under license_id.
issue_update(data, t, args, license_id, password, salt) ==
    LET hp == hash_password(password, salt)
        license_data ==
            [license_id |-> license_id,
             company_name |-> args.company_name,
             contact_email |-> args.contact_email,
             commercial_use_case |-> args.commercial_use_case,
             issued_date |-> t,
             expiration_date |-> t + args.expiration_days,
             status |-> "active",
             max_instances |-> args.max_instances,
             password_hash |-> hp[1],
             salt |-> hp[2],
             activations |-> 0,
             license_type |-> args.license_type]
    IN [licenses |-> Put(data.licenses, license_id, license_data),
        metadata |-> Put(data.metadata, "last_updated", t)]

\* issue_license(...): args are the caller's arguments, t the clock, and
\* license_id, password, salt what the generators draw.
issue_license(db, creds, t, args, admin_username, admin_password, license_id, password, salt) ==
    IF ~Truthy(admin_username) \/ ~Truthy(admin_password)
    THEN [ret |-> <<NoneId, None, "Admin credentials required">>,
          db |-> db, events |-> <<>>]
    ELSE LET auth == verify_admin(creds, admin_username, admin_password) IN
    IF ~auth.ok
    THEN [ret |-> <<NoneId, None, "Admin authentication failed">>,
          db |-> db, events |-> auth.events]
    ELSE IF ~(Truthy(args.company_name) /\ Truthy(args.contact_email)
              /\ Truthy(args.commercial_use_case))
    THEN [ret |-> <<NoneId, None, "company_name, contact_email, and use_case are required">>,
          db |-> db, events |-> auth.events]
    ELSE IF out_of_range(args.expiration_days, args.max_instances)
    THEN [ret |-> <<NoneId, None, "expiration_days and max_instances must be >= 1">>,
          db |-> db, events |-> auth.events]
    ELSE LET data2 == issue_update(load_licenses(db), t, args, license_id, password, salt)
         IN [ret |-> <<license_id, password, "License issued">>,
             db |-> save_licenses(db, data2),
             events |-> auth.events \o
                 <<Event("INFO", "License issued by",
                         <<admin_username, <<license_id>>, args.company_name>>)>>]

IssueLicense ==
    \E ic \in IssueCalls, license_id \in LicenseIds,
       password \in Passwords, salt \in Salts :
        LET args == ic[1]
            c == ic[2]
            r == issue_license(license_database, admin_credentials, now, args,
                               c[1], c[2], license_id, password, salt)
        IN  /\ call' = [name |-> "issue_license", args |-> args,
                        admin_username |-> c[1], admin_password |-> c[2]]
            /\ ret' = Outcome("none", r.ret)
            /\ emitted' = r.events
            /\ license_database' = r.db
            /\ activated_ok' = IF r.ret[1] # NoneId
                               THEN [activated_ok EXCEPT ![license_id] = 0]
                               ELSE activated_ok
            /\ UNCHANGED <<admin_credentials, regular_database, now, revoked_ok, threads, io_fault, exported>>

\* A mismatch that hashes without the stored salt: a digest of the password
\* alone never equals the salted digest.
password_mismatch_unsalted(password, license_record) ==
    Sha256Hex(password) # license_record.password_hash

\* verify_license's password test: the hash recomputed with the stored salt
\* differs from the stored hash.
password_mismatch(password, license_record) ==
    hash_password(password, license_record.salt)[1] # license_record.password_hash

\* A verification that tests the persisted status before the expiration.
verify_license_status_first(db, t, license_id, password) ==
    LET data == db IN
    IF license_id \notin DOMAIN data.licenses
    THEN <<NOT_FOUND, NoneId, <<>>>>
    ELSE LET license_record == data.licenses[license_id] IN
         IF license_record.status # "active"
         THEN <<INVALID, license_record.license_type, <<license_record>>>>
         ELSE IF t > license_record.expiration_date
         THEN <<EXPIRED, license_record.license_type, <<license_record>>>>
         ELSE IF /\ Truthy(password)
                 /\ license_record.license_type = COMMERCIAL
                 /\ password_mismatch(password, license_record)
         THEN <<INVALID, license_record.license_type, <<license_record>>>>
         ELSE <<VALID, license_record.license_type, <<license_record>>>>

\* verify_license(license_id, password): (LicenseStatus, LicenseType, record),
\* the record as <<>> for None and <<record>> otherwise.
verify_license(db, t, license_id, password) ==
    LET data == load_licenses(db) IN
    IF license_id \notin DOMAIN data.licenses
    THEN <<NOT_FOUND, NoneId, <<>>>>
    ELSE LET license_record == data.licenses[license_id] IN
         IF t > license_record.expiration_date
         THEN <<EXPIRED, license_record.license_type, <<license_record>>>>
         ELSE IF license_record.status # "active"
         THEN <<INVALID, license_record.license_type, <<license_record>>>>
         ELSE IF /\ Truthy(password)
                 /\ license_record.license_type = COMMERCIAL
                 /\ password_mismatch(password, license_record)
         THEN <<INVALID, license_record.license_type, <<license_record>>>>
         ELSE <<VALID, license_record.license_type, <<license_record>>>>

VerifyLicense ==
    \E license_id \in AskedIds, password \in AskedPasswords :
        /\ call' = [name |-> "verify_license", license_id |-> license_id,
                    password |-> password]
        /\ ret' = Outcome("none",
                        verify_license(license_database, now, license_id, password))
        /\ emitted' = <<>>
        /\ UNCHANGED <<admin_credentials, license_database, regular_database, now,
                       revoked_ok, activated_ok, threads, io_fault, exported>>

\* The data revoke_license has in memory before the save.
revoke_update(data, t, license_id) ==
    LET rec == Put(Put(data.licenses[license_id], "status", "revoked"),
                   "revoked_date", t)
    IN [data EXCEPT !.licenses = Put(data.licenses, license_id, rec)]

\* revoke_license(license_id, admin_username, admin_password)
revoke_license(db, creds, t, license_id, admin_username, admin_password) ==
    IF ~Truthy(admin_username) \/ ~Truthy(admin_password)
    THEN [ret |-> <<FALSE, "Admin credentials required">>, db |-> db, events |-> <<>>]
    ELSE LET auth == verify_admin(creds, admin_username, admin_password) IN
    IF ~auth.ok
    THEN [ret |-> <<FALSE, "Admin authentication failed">>, db |-> db,
          events |-> auth.events]
    ELSE LET data == load_licenses(db) IN
    IF license_id \notin DOMAIN data.licenses
    THEN [ret |-> <<FALSE, "License not found">>, db |-> db, events |-> auth.events]
    ELSE LET data2 == revoke_update(data, t, license_id)
         IN [ret |-> <<TRUE, "License revoked">>,
             db |-> save_licenses(db, data2),
             events |-> auth.events \o
                 <<Event("INFO", "License revoked by", <<admin_username, <<license_id>>>>)>>]

RevokeLicense ==
    \E rc \in RevokeCalls(LicenseIds, "AI-INV-X") :
        LET license_id == rc[1]
            c == rc[2]
            r == revoke_license(license_database, admin_credentials, now, license_id,
                                c[1], c[2])
        IN  /\ call' = [name |-> "revoke_license", license_id |-> license_id,
                        admin_username |-> c[1], admin_password |-> c[2]]
            /\ ret' = Outcome("none", r.ret)
            /\ emitted' = r.events
            /\ license_database' = r.db
            /\ revoked_ok' = IF r.ret[1] THEN revoked_ok \cup {license_id} ELSE revoked_ok
            /\ UNCHANGED <<admin_credentials, regular_database, now, activated_ok,
                           threads, io_fault, exported>>

\* a, b = value: unpacking into two targets raises ValueError unless the
\* value has exactly two items.
Unpack2(value) ==
    IF Len(value) = 2
    THEN [ok |-> TRUE, a |-> value[1], b |-> value[2]]
    ELSE [ok |-> FALSE, a |-> NoneId, b |-> <<>>]

\* activate_license up to its limit check, on what verify_license returned:
\* either it ends (a return or a raise) or it goes on to the increment with
\* the counter value it read.
activate_check(verified, t) ==
    LET u == Unpack2(verified) IN
    IF ~u.ok
    THEN [done |-> TRUE, raise |-> "ValueError", ret |-> <<>>, current |-> 0]
    ELSE LET is_valid == u.a
             license_record == u.b
         IN
         IF ~EnumTruthy(is_valid)
         THEN [done |-> TRUE, raise |-> "none", current |-> 0,
               ret |-> IF license_record = <<>>
                       THEN <<FALSE, "License ID not found">>
                       ELSE IF t > license_record[1].expiration_date
                       THEN <<FALSE, "License has expired">>
                       ELSE IF license_record[1].status # "active"
                       THEN <<FALSE, "License is revoked">>
                       ELSE <<FALSE, "Invalid password">>]
         ELSE IF license_record = <<>>
         THEN \* None.get(...)
              [done |-> TRUE, raise |-> "AttributeError", ret |-> <<>>, current |-> 0]
         ELSE LET max_instances == license_record[1].max_instances
                  current_activations == license_record[1].activations
              IN IF current_activations >= max_instances
                 THEN [done |-> TRUE, raise |-> "none", current |-> current_activations,
                       ret |-> <<FALSE, "License activation limit exceeded">>]
                 ELSE [done |-> FALSE, raise |-> "none", current |-> current_activations,
                       ret |-> <<TRUE, "License activated for">>]

\* The increment of activate_license on the data it loaded.
activate_update(data, t, license_id, current_activations, instance_identifier) ==
    LET r1 == Put(Put(data.licenses[license_id], "activations", current_activations + 1),
                  "last_activation", t)
        r2 == IF Truthy(instance_identifier)
              THEN Put(r1, "last_instance", instance_identifier)
              ELSE r1
    IN [data EXCEPT !.licenses = Put(data.licenses, license_id, r2)]

\* activate_license(license_id, password, instance_identifier), run without
\* interruption.
activate_license(db, t, license_id, password, instance_identifier) ==
    LET chk == activate_check(verify_license(db, t, license_id, password), t) IN
    IF chk.done
    THEN [raise |-> chk.raise, ret |-> chk.ret, db |-> db]
    ELSE LET data == load_licenses(db) IN
         IF license_id \notin DOMAIN data.licenses
         THEN [raise |-> "KeyError", ret |-> <<>>, db |-> db]
         ELSE [raise |-> "none", ret |-> chk.ret,
               db |-> save_licenses(db, activate_update(data, t, license_id, chk.current,
                                                       instance_identifier))]

ActivateLicense ==
    \E license_id \in AskedIds, password \in AskedPasswords,
       instance_identifier \in InstanceIds :
        LET r == activate_license(license_database, now, license_id, password,
                                  instance_identifier)
        IN  /\ call' = [name |-> "activate_license", license_id |-> license_id,
                        password |-> password,
                        instance_identifier |-> instance_identifier]
            /\ ret' = Outcome(r.raise, r.ret)
            /\ emitted' = <<>>
            /\ license_database' = r.db
            /\ activated_ok' = IF r.raise = "none" /\ r.ret[1]
                               THEN [activated_ok EXCEPT ![license_id] = @ + 1]
                               ELSE activated_ok
            /\ UNCHANGED <<admin_credentials, regular_database, now, revoked_ok, threads, io_fault, exported>>

\* ------------------------------------------------------------ Excel export
\* export_licenses_to_excel(licenses_data, filename): the file afterwards,
\* the result and the events logged. xlsx is the file before the call.
export_licenses_to_excel(xlsx, licenses_data) ==
    IF licenses_data = <<>>
    THEN [ret |-> <<FALSE, "No license data to export.">>, xlsx |-> xlsx, events |-> <<>>]
    ELSE IF io_fault = "write"
    THEN [ret |-> <<FALSE, "Error exporting licenses to Excel">>, xlsx |-> xlsx,
          events |-> <<Event("ERROR", "Error exporting licenses to Excel", <<>>)>>]
    ELSE [ret |-> <<TRUE, "Licenses successfully exported to">>,
          xlsx |-> <<licenses_data>>,
          events |-> <<Event("INFO", "Licenses exported to", <<>>)>>]

\* The row generate_commercial_licenses keeps for an issued license. The
\* columns "License ID", "Password", "Company Name", ... are the fields.
ExcelRow(license_id, password, args, t) ==
    [license_id |-> license_id,
     password |-> password,
     company_name |-> args.company_name,
     contact_email |-> args.contact_email,
     use_case |-> args.commercial_use_case,
     issued_date |-> t,
     expiration_date |-> t + args.expiration_days,
     max_instances |-> args.max_instances,
     status |-> "active"]

\* generate_commercial_licenses(num_licenses, admin_username, admin_password,
\* ..., expiration_days, max_instances): g holds the arguments, draws[i] what
\* the generators draw in the i-th issue_license call.
generate_commercial_licenses(db, creds, xlsx, t, g, draws) ==
    LET auth == verify_admin(creds, g.admin_username, g.admin_password) IN
    IF ~auth.ok
    THEN [ret |-> <<FALSE, "Admin authentication failed">>, db |-> db, xlsx |-> xlsx,
          events |-> auth.events, rows |-> <<>>]
    ELSE LET loop[i \in 0..g.num_licenses] ==
                 IF i = 0
                 THEN [failed |-> FALSE, db |-> db, rows |-> <<>>, events |-> auth.events]
                 ELSE LET prev == loop[i - 1]
                          args == IssueArgs(Company \o <<" ", ToString(i)>>,
                                            <<"user", ToString(i), "_">> \o Email,
                                            UseCase, g.expiration_days, g.max_instances,
                                            COMMERCIAL)
                          r == issue_license(prev.db, creds, t, args, g.admin_username,
                                             g.admin_password, draws[i][1], draws[i][2],
                                             draws[i][3])
                      IN IF prev.failed
                         THEN prev
                         ELSE IF r.ret[1] # NoneId
                         THEN [failed |-> FALSE, db |-> r.db,
                               rows |-> Append(prev.rows,
                                               ExcelRow(r.ret[1], r.ret[2], args, t)),
                               events |-> prev.events \o r.events]
                         ELSE [failed |-> TRUE, db |-> r.db, rows |-> prev.rows,
                               events |-> prev.events \o r.events \o
                                   <<Event("ERROR", "Failed to generate license",
                                           <<<<ToString(i)>>>>)>>]
             last == loop[g.num_licenses]
             ex == export_licenses_to_excel(xlsx, last.rows)
         IN IF last.failed
            THEN [ret |-> <<FALSE, "Failed to generate license">>, db |-> last.db,
                  xlsx |-> xlsx, events |-> last.events, rows |-> last.rows]
            ELSE IF ~ex.ret[1]
            THEN [ret |-> <<FALSE, "Generated licenses but failed to export to Excel">>,
                  db |-> last.db, xlsx |-> ex.xlsx, events |-> last.events \o ex.events,
                  rows |-> last.rows]
            ELSE [ret |-> <<TRUE, "Successfully generated commercial licenses">>,
                  db |-> last.db, xlsx |-> ex.xlsx, events |-> last.events \o ex.events,
                  rows |-> last.rows]

\* generate_commercial_licenses calls: batches of 0..MaxBatch licenses under
\* the credentials _setup_admin can store, with a valid and an invalid
\* expiration_days, and one batch under each of the other credentials.
GenerateCalls ==
    {[num_licenses |-> n, admin_username |-> UserA, admin_password |-> PassP,
      expiration_days |-> d, max_instances |-> 1] : n \in 0..MaxBatch, d \in 0..1}
    \cup {[num_licenses |-> 1, admin_username |-> c[1], admin_password |-> c[2],
           expiration_days |-> 1, max_instances |-> 1] : c \in AdminCreds}

GenerateCommercialLicenses ==
    \E g \in GenerateCalls :
    \E draws \in [1..g.num_licenses -> LicenseIds \X Passwords \X Salts] :
        LET r == generate_commercial_licenses(license_database, admin_credentials,
                                              exported, now, g, draws)
        IN  /\ call' = [name |-> "generate_commercial_licenses", args |-> g]
            /\ ret' = Outcome("none", r.ret)
            /\ emitted' = r.events
            /\ license_database' = r.db
            /\ exported' = r.xlsx
            /\ activated_ok' =
                 [i \in AskedIds |->
                    IF \E k \in 1..Len(r.rows) : r.rows[k].license_id = i
                    THEN 0 ELSE activated_ok[i]]
            /\ UNCHANGED <<admin_credentials, regular_database, now, revoked_ok, threads,
                           io_fault>>

\* --------------------------------------------------------- regular store
\* _load_regular_licenses()
load_regular_licenses(db) ==
    IF io_fault = "read" THEN [licenses |-> EmptyDict] ELSE db

\* _save_regular_licenses(data)
save_regular_licenses(db, data) == IF io_fault = "write" THEN db ELSE data

\* issue_regular_license(expiration_days, admin_username, admin_password)
issue_regular_license(db, creds, t, expiration_days, admin_username, admin_password, license_code) ==
    IF ~Truthy(admin_username) \/ ~Truthy(admin_password)
    THEN [ret |-> <<NoneId, "Admin credentials required">>, db |-> db, events |-> <<>>]
    ELSE LET auth == verify_admin(creds, admin_username, admin_password) IN
    IF ~auth.ok
    THEN [ret |-> <<NoneId, "Admin authentication failed">>, db |-> db,
          events |-> auth.events]
    ELSE LET license_data ==
                 [license_code |-> license_code,
                  issued_date |-> t,
                  expiration_date |-> t + expiration_days,
                  status |-> "active",
                  license_type |-> REGULAR]
             data == load_regular_licenses(db)
             data2 == [data EXCEPT !.licenses = Put(data.licenses, license_code,
                                                    license_data)]
         IN [ret |-> <<license_code, "Regular license issued">>,
             db |-> save_regular_licenses(db, data2),
             events |-> auth.events \o
                 <<Event("INFO", "Regular license issued by",
                         <<admin_username, <<license_code>>>>)>>]

IssueRegularLicense ==
    \E rc \in RegularIssueCalls, license_code \in RegularCodes :
        LET r == issue_regular_license(regular_database, admin_credentials, now, rc[1],
                                       rc[2][1], rc[2][2], license_code)
        IN  /\ call' = [name |-> "issue_regular_license", expiration_days |-> rc[1],
                        admin_username |-> rc[2][1], admin_password |-> rc[2][2]]
            /\ ret' = Outcome("none", r.ret)
            /\ emitted' = r.events
            /\ regular_database' = r.db
            /\ UNCHANGED <<admin_credentials, license_database, now, revoked_ok,
                           activated_ok, threads, io_fault, exported>>

\* A verification that reports a regular license expired on its last day.
verify_regular_license_last_day(db, t, license_code) ==
    LET data == load_regular_licenses(db) IN
    IF license_code \notin DOMAIN data.licenses
    THEN <<NOT_FOUND, <<>>>>
    ELSE LET license_record == data.licenses[license_code] IN
         IF t >= license_record.expiration_date
         THEN <<EXPIRED, <<license_record>>>>
         ELSE IF license_record.status # "active"
         THEN <<INVALID, <<license_record>>>>
         ELSE <<VALID, <<license_record>>>>

\* verify_regular_license(license_code): (LicenseStatus, record)
verify_regular_license(db, t, license_code) ==
    LET data == load_regular_licenses(db) IN
    IF license_code \notin DOMAIN data.licenses
    THEN <<NOT_FOUND, <<>>>>
    ELSE LET license_record == data.licenses[license_code] IN
         IF t > license_record.expiration_date
         THEN <<EXPIRED, <<license_record>>>>
         ELSE IF license_record.status # "active"
         THEN <<INVALID, <<license_record>>>>
         ELSE <<VALID, <<license_record>>>>

VerifyRegularLicense ==
    \E license_code \in AskedCodes :
        /\ call' = [name |-> "verify_regular_license", license_code |-> license_code]
        /\ ret' = Outcome("none",
                        verify_regular_license(regular_database, now, license_code))
        /\ emitted' = <<>>
        /\ UNCHANGED <<admin_credentials, license_database, regular_database, now,
                       revoked_ok, activated_ok, threads, io_fault, exported>>

\* revoke_regular_license(license_code, admin_username, admin_password)
revoke_regular_license(db, creds, t, license_code, admin_username, admin_password) ==
    IF ~Truthy(admin_username) \/ ~Truthy(admin_password)
    THEN [ret |-> <<FALSE, "Admin credentials required">>, db |-> db, events |-> <<>>]
    ELSE LET auth == verify_admin(creds, admin_username, admin_password) IN
    IF ~auth.ok
    THEN [ret |-> <<FALSE, "Admin authentication failed">>, db |-> db,
          events |-> auth.events]
    ELSE LET data == load_regular_licenses(db) IN
    IF license_code \notin DOMAIN data.licenses
    THEN [ret |-> <<FALSE, "License not found">>, db |-> db, events |-> auth.events]
    ELSE LET rec == Put(Put(data.licenses[license_code], "status", "revoked"),
                        "revoked_date", t)
             data2 == [data EXCEPT !.licenses = Put(data.licenses, license_code, rec)]
         IN [ret |-> <<TRUE, "Regular license revoked">>,
             db |-> save_regular_licenses(db, data2),
             events |-> auth.events \o
                 <<Event("INFO", "Regular license revoked by",
                         <<admin_username, <<license_code>>>>)>>]

RevokeRegularLicense ==
    \E rc \in RevokeCalls(RegularCodes, "REG-X") :
        LET license_code == rc[1]
            c == rc[2]
            r == revoke_regular_license(regular_database, admin_credentials, now,
                                        license_code, c[1], c[2])
        IN  /\ call' = [name |-> "revoke_regular_license", license_code |-> license_code,
                        admin_username |-> c[1], admin_password |-> c[2]]
            /\ ret' = Outcome("none", r.ret)
            /\ emitted' = r.events
            /\ regular_database' = r.db
            /\ revoked_ok' = IF r.ret[1] THEN revoked_ok \cup {license_code}
                             ELSE revoked_ok
            /\ UNCHANGED <<admin_credentials, license_database, now, activated_ok,
                           threads, io_fault, exported>>

\* ------------------------------------------------- concurrent activation
\* activate_license takes no lock, so the calls of several threads interleave
\* at their file accesses: the read inside verify_license, the read of
\* _load_licenses and the write of _save_licenses.
Threads == 1..NumThreads

IdleFrame ==
    [op |-> "none", license_id |-> NoneId, password |-> None, instance_identifier |-> None,
     verified |-> <<>>, current |-> 0,
     data |-> [licenses |-> EmptyDict, metadata |-> EmptyDict]]

\* activate_license calls the threads make.
ThreadCalls == {<<i, pw, None>> : i \in LicenseIds, pw \in {PassP, <<>>}}

\* A thread enters activate_license and runs verify_license, which reads the
\* store.
ActVerify(th) ==
    /\ pc[th] = "idle"
    /\ \E tc \in ThreadCalls :
        frame' = [frame EXCEPT ![th] =
                    [IdleFrame EXCEPT !.op = "activate_license",
                                      !.license_id = tc[1], !.password = tc[2],
                                      !.instance_identifier = tc[3],
                                      !.verified = verify_license(license_database, now,
                                                                  tc[1], tc[2])]]
    /\ pc' = [pc EXCEPT ![th] = "check"]
    /\ result' = [result EXCEPT ![th] = Outcome("none", <<>>)]
    /\ UNCHANGED <<admin_credentials, license_database, regular_database, now, call, ret,
                   emitted, revoked_ok, activated_ok, io_fault, exported>>

\* The thread's next step: the unpacking and the limit check on its locals,
\* then _load_licenses, then the increment and _save_licenses.
ActStep(th) ==
    LET f == frame[th]
        chk == activate_check(f.verified, now)
        data == load_licenses(license_database)
    IN
    /\ pc[th] \in {"check", "load", "save"}
    /\ IF pc[th] = "check"
       THEN /\ pc' = [pc EXCEPT ![th] = IF chk.done THEN "idle" ELSE "load"]
            /\ frame' = [frame EXCEPT ![th] = IF chk.done THEN IdleFrame
                                              ELSE [f EXCEPT !.current = chk.current]]
            /\ result' = [result EXCEPT ![th] = IF chk.done THEN Outcome(chk.raise, chk.ret)
                                                ELSE result[th]]
            /\ UNCHANGED <<license_database, activated_ok>>
       ELSE IF pc[th] = "load"
       THEN /\ pc' = [pc EXCEPT ![th] = "save"]
            /\ frame' = [frame EXCEPT ![th] = [f EXCEPT !.data = data]]
            /\ UNCHANGED <<license_database, activated_ok, result>>
       ELSE IF f.license_id \notin DOMAIN f.data.licenses
       THEN /\ pc' = [pc EXCEPT ![th] = "idle"]
            /\ frame' = [frame EXCEPT ![th] = IdleFrame]
            /\ result' = [result EXCEPT ![th] = Outcome("KeyError", <<>>)]
            /\ UNCHANGED <<license_database, activated_ok>>
       ELSE /\ license_database' =
                  save_licenses(license_database,
                                activate_update(f.data, now, f.license_id, f.current,
                                                f.instance_identifier))
            /\ activated_ok' = [activated_ok EXCEPT ![f.license_id] = @ + 1]
            /\ pc' = [pc EXCEPT ![th] = "idle"]
            /\ frame' = [frame EXCEPT ![th] = IdleFrame]
            /\ result' = [result EXCEPT ![th] =
                             Outcome("none", <<TRUE, "License activated for">>)]
    /\ UNCHANGED <<admin_credentials, regular_database, now, call, ret, emitted,
                   revoked_ok, io_fault, exported>>

\* ------------------------------------------- concurrent issue and revoke
\* issue_license and revoke_license take no lock either: each loads the whole
\* file, changes its copy in memory and writes the whole file back, and the
\* calls of several threads interleave between the load and the save.

\* The identifiers the generator draws for the threads' issue_license calls.
RaceIds == LicenseIds \cup {"AI-INV-2"}

\* (admin_username, admin_password) pairs of the threads' calls.
RaceCreds == {<<UserA, PassP>>, <<UserA, PassQ>>}

\* A thread runs issue_license up to the save: the gate, the validation, the
\* load and the change of the loaded data.
IssueLoad(th) ==
    /\ pc[th] = "idle"
    /\ \E c \in RaceCreds, license_id \in RaceIds, salt \in Salts :
        LET args == IssueArgs(Company, Email, UseCase, 1, 1, COMMERCIAL)
            r == issue_license(license_database, admin_credentials, now, args,
                               c[1], c[2], license_id, PassP, salt)
        IN  IF r.ret[1] = NoneId
            THEN /\ result' = [result EXCEPT ![th] = Outcome("none", r.ret)]
                 /\ UNCHANGED <<pc, frame>>
            ELSE /\ pc' = [pc EXCEPT ![th] = "write"]
                 /\ frame' = [frame EXCEPT ![th] =
                       [IdleFrame EXCEPT
                          !.op = "issue_license",
                          !.license_id = license_id,
                          !.password = PassP,
                          !.data = issue_update(load_licenses(license_database), now,
                                                args, license_id, PassP, salt)]]
                 /\ result' = [result EXCEPT ![th] = Outcome("none", <<>>)]
    /\ UNCHANGED <<admin_credentials, license_database, regular_database, now, call, ret,
                   emitted, revoked_ok, activated_ok, io_fault, exported>>

\* A thread runs revoke_license up to the save.
RevokeLoad(th) ==
    /\ pc[th] = "idle"
    /\ \E c \in RaceCreds, license_id \in RaceIds :
        LET r == revoke_license(license_database, admin_credentials, now, license_id,
                                c[1], c[2])
        IN  IF ~r.ret[1]
            THEN /\ result' = [result EXCEPT ![th] = Outcome("none", r.ret)]
                 /\ UNCHANGED <<pc, frame>>
            ELSE /\ pc' = [pc EXCEPT ![th] = "write"]
                 /\ frame' = [frame EXCEPT ![th] =
                       [IdleFrame EXCEPT
                          !.op = "revoke_license",
                          !.license_id = license_id,
                          !.data = revoke_update(load_licenses(license_database), now,
                                                 license_id)]]
                 /\ result' = [result EXCEPT ![th] = Outcome("none", <<>>)]
    /\ UNCHANGED <<admin_credentials, license_database, regular_database, now, call, ret,
                   emitted, revoked_ok, activated_ok, io_fault, exported>>

\* The thread's _save_licenses(data) and its return.
StoreWrite(th) ==
    /\ pc[th] = "write"
    /\ license_database' = save_licenses(license_database, frame[th].data)
    /\ pc' = [pc EXCEPT ![th] = "idle"]
    /\ frame' = [frame EXCEPT ![th] = IdleFrame]
    /\ result' = [result EXCEPT ![th] =
                    IF frame[th].op = "issue_license"
                    THEN Outcome("none", <<frame[th].license_id, frame[th].password,
                                           "License issued">>)
                    ELSE Outcome("none", <<TRUE, "License revoked">>)]
    /\ revoked_ok' = IF frame[th].op = "revoke_license"
                     THEN revoked_ok \cup {frame[th].license_id}
                     ELSE revoked_ok
    /\ UNCHANGED <<admin_credentials, regular_database, now, call, ret, emitted,
                   activated_ok, io_fault, exported>>

\* ------------------------------------------------------------ file system
\* The file system starts or stops failing the reads or the writes of the
\* store files (a lost permission, a full or read-only volume, a file that
\* is not JSON).
SetFault ==
    /\ \E f \in {"none", "read", "write"} :
        /\ f # io_fault
        /\ io_fault' = f
    /\ UNCHANGED <<admin_credentials, license_database, regular_database, now, call, ret,
                   emitted, revoked_ok, activated_ok, threads, exported>>

\* ------------------------------------------------------------- the clock
Tick ==
    /\ now < MaxClock
    /\ now' = now + 1
    /\ UNCHANGED <<admin_credentials, license_database, regular_database, call, ret,
                   emitted, revoked_ok, activated_ok, threads, io_fault, exported>>

Init ==
    /\ admin_credentials = <<>>
    /\ license_database = [licenses |-> EmptyDict, metadata |-> EmptyDict]
    /\ regular_database = [licenses |-> EmptyDict]
    /\ now = 0
    /\ call = [name |-> "none"]
    /\ ret = Outcome("none", <<>>)
    /\ emitted = <<>>
    /\ revoked_ok = {}
    /\ activated_ok = [i \in AskedIds |-> 0]
    /\ pc = [th \in Threads |-> "idle"]
    /\ frame = [th \in Threads |-> IdleFrame]
    /\ result = [th \in Threads |-> Outcome("none", <<>>)]
    /\ io_fault = "none"
    /\ exported = <<>>

\* ------------------------------------------------------------------ claims
\* The record stored under an identifier.
Licenses == license_database.licenses
RegularLicenses == regular_database.licenses

\* The step is a call of operation `name`: every operation records its name
\* and runs at one clock value, and only Tick moves the clock.
IsCall(name) == call'.name = name /\ now' = now

\* The record is one verify_license reports VALID for the given password
\* check: present, active and not past its expiration at clock t.
Live(licenses, i, t) ==
    /\ i \in DOMAIN licenses
    /\ licenses[i].status = "active"
    /\ t <= licenses[i].expiration_date

\* C1: verify_license with the identifier and the plaintext password that a
\* successful issue_license has just returned yields VALID, as long as the
\* clock has not passed the expiration.
C1_IssueThenVerify ==
    [][(/\ call.name = "issue_license"
        /\ ret.value[1] # NoneId
        /\ IsCall("verify_license")
        /\ call'.license_id = ret.value[1]
        /\ call'.password = ret.value[2]
        /\ now <= Licenses[ret.value[1]].expiration_date)
       => ret'.value[1] = VALID]_vars

\* C1 witness: verify_license has returned VALID for a commercial record
\* issued at this clock value, on its own non-empty password.
C1_Witness ==
    /\ call.name = "verify_license"
    /\ call.license_id \in DOMAIN Licenses
    /\ Truthy(call.password)
    /\ Licenses[call.license_id].license_type = COMMERCIAL
    /\ Licenses[call.license_id].issued_date = now
    /\ ~password_mismatch(call.password, Licenses[call.license_id])
    /\ ret.value[1] = VALID

C3_ActivationRun ==
    [][(/\ IsCall("activate_license")
        /\ Live(Licenses, call'.license_id, now)
        /\ Licenses[call'.license_id].license_type = COMMERCIAL
        /\ Truthy(call'.password)
        /\ ~password_mismatch(call'.password, Licenses[call'.license_id]))
       => LET i == call'.license_id IN
          /\ ret'.raised = "none"
          /\ IF Licenses[i].activations < Licenses[i].max_instances
             THEN /\ ret'.value[1] = TRUE
                  /\ license_database'.licenses[i].activations
                       = Licenses[i].activations + 1
             ELSE /\ ret'.value = <<FALSE, "License activation limit exceeded">>
                  /\ license_database' = license_database]_vars

C5_RevokedNeverValid ==
    /\ (call.name = "verify_license" /\ call.license_id \in revoked_ok)
       => ret.value[1] # VALID
    /\ (call.name = "verify_regular_license" /\ call.license_code \in revoked_ok)
       => ret.value[1] # VALID

\* C6: a successful revoke of a record that is already revoked leaves the
\* record exactly as it was, the revoked timestamp included.
C6_RevokeIdempotent ==
    [][/\ (/\ IsCall("revoke_license")
           /\ call'.license_id \in DOMAIN Licenses
           /\ Licenses[call'.license_id].status = "revoked"
           /\ ret'.value[1] = TRUE)
          => license_database'.licenses[call'.license_id] = Licenses[call'.license_id]
       /\ (/\ IsCall("revoke_regular_license")
           /\ call'.license_code \in DOMAIN RegularLicenses
           /\ RegularLicenses[call'.license_code].status = "revoked"
           /\ ret'.value[1] = TRUE)
          => regular_database'.licenses[call'.license_code]
               = RegularLicenses[call'.license_code]]_vars

\* C7: a verification of a stored record whose expiration is earlier than
\* the clock returns EXPIRED together with the record, whatever the persisted
\* status and whatever the password.
C7_ExpiredFirst ==
    [][/\ (/\ IsCall("verify_license")
           /\ call'.license_id \in DOMAIN Licenses
           /\ now > Licenses[call'.license_id].expiration_date)
          => ret'.value = <<EXPIRED, Licenses[call'.license_id].license_type,
                            <<Licenses[call'.license_id]>>>>
       /\ (/\ IsCall("verify_regular_license")
           /\ call'.license_code \in DOMAIN RegularLicenses
           /\ now > RegularLicenses[call'.license_code].expiration_date)
          => ret'.value = <<EXPIRED, <<RegularLicenses[call'.license_code]>>>>]_vars

\* C7 witness: verify_license has returned EXPIRED for a revoked commercial
\* record on a wrong password, and a revoked regular record is past its
\* expiration too.
C7_Witness ==
    /\ call.name = "verify_license"
    /\ call.license_id \in DOMAIN Licenses
    /\ Licenses[call.license_id].status = "revoked"
    /\ Licenses[call.license_id].license_type = COMMERCIAL
    /\ Truthy(call.password)
    /\ password_mismatch(call.password, Licenses[call.license_id])
    /\ now > Licenses[call.license_id].expiration_date
    /\ ret.value[1] = EXPIRED
    /\ \E c \in DOMAIN RegularLicenses :
        /\ RegularLicenses[c].status = "revoked"
        /\ now > RegularLicenses[c].expiration_date

\* C8: verify_license of an active, unexpired commercial-kind record with a
\* password (the empty string included) other than the issued one returns
\* INVALID and leaves the store unchanged.
C8_WrongPasswordInvalid ==
    [][(/\ IsCall("verify_license")
        /\ Live(Licenses, call'.license_id, now)
        /\ Licenses[call'.license_id].license_type = COMMERCIAL
        /\ call'.password # None
        /\ password_mismatch(call'.password, Licenses[call'.license_id]))
       => (/\ ret'.value[1] = INVALID
           /\ license_database' = license_database)]_vars

\* The admin gate turns the credentials away: one is missing, no admin
\* record exists, the username differs or the password's hash differs.
AuthFails(username, password) ==
    \/ ~Truthy(username)
    \/ ~Truthy(password)
    \/ admin_credentials = <<>>
    \/ admin_credentials[1].username # username
    \/ hash_password(password, admin_credentials[1].salt)[1]
         # admin_credentials[1].password_hash

\* issue_license's input validation turns the arguments away.
InputFails(args) ==
    \/ args.company_name = <<>>
    \/ args.contact_email = <<>>
    \/ args.commercial_use_case = <<>>
    \/ args.expiration_days < 1
    \/ args.max_instances < 1

C10_VerifyAdminIff ==
    call.name = "_verify_admin"
    => (ret.value <=> /\ admin_credentials # <<>>
                      /\ admin_credentials[1].username = call.username
                      /\ call.password # None
                      /\ hash_password(call.password, admin_credentials[1].salt)[1]
                           = admin_credentials[1].password_hash)

\* C10 witness: _verify_admin has returned True.
C10_Witness ==
    /\ call.name = "_verify_admin"
    /\ ret.value = TRUE

\* The operations behind the admin gate.
GatedCalls ==
    {"issue_license", "revoke_license", "issue_regular_license", "revoke_regular_license"}

\* The events of the audit log that report an authentication attempt.
AuthEventsOf(events) ==
    SelectSeq(events, LAMBDA e : e.msg \in {"Admin authenticated",
                                            "Failed admin login attempt: wrong username",
                                            "Failed admin login attempt: wrong password for",
                                            "Admin verification error"})

\* C11: every admin authentication attempt, a direct _verify_admin call or
\* the gate of an admin-gated operation, whether it succeeds or fails, before
\* the admin record exists or with credentials missing, appends exactly one
\* event to the audit log, and the event carries the attempted username and
\* the outcome.
C11_AuthAudited ==
    (call.name = "_verify_admin" \/ call.name \in GatedCalls)
    => LET username == IF call.name = "_verify_admin" THEN call.username
                       ELSE call.admin_username
           attempts == AuthEventsOf(emitted)
       IN  /\ Len(attempts) = 1
           /\ attempts[1].args[1] = username
           /\ call.name = "_verify_admin"
              => (ret.value <=> attempts[1].msg = "Admin authenticated")

\* C12: _setup_admin creates the admin record exactly when none exists and
\* the username and the password are both non-empty; otherwise it leaves the
\* stored record (or its absence) as it was and returns (None, None). While
\* no record exists _verify_admin returns False, and once a record exists no
\* operation changes it.
C12_BootstrapOnce ==
    [][/\ IsCall("_setup_admin")
          => IF /\ admin_credentials = <<>>
                /\ call'.admin_user # <<>>
                /\ call'.admin_pass # <<>>
             THEN /\ admin_credentials' # <<>>
                  /\ admin_credentials'[1].username = call'.admin_user
                  /\ admin_credentials'[1].password_hash
                       = hash_password(call'.admin_pass, admin_credentials'[1].salt)[1]
             ELSE /\ admin_credentials' = admin_credentials
                  /\ ret'.value = <<None, None>>
       /\ (IsCall("_verify_admin") /\ admin_credentials = <<>>) => ret'.value = FALSE
       /\ admin_credentials # <<>> => admin_credentials' = admin_credentials]_vars

\* C12 witness: _setup_admin has been called again on a later day, on the
\* record an earlier call created, and was refused.
C12_Witness ==
    /\ call.name = "_setup_admin"
    /\ Truthy(call.admin_user)
    /\ Truthy(call.admin_pass)
    /\ admin_credentials # <<>>
    /\ admin_credentials[1].created < now
    /\ ret.value = <<None, None>>

\* C13: an operation that returns a success outcome has persisted its
\* mutation, also when the write of the store file fails: after a successful
\* issue the store holds the record just issued, after a successful revoke
\* the stored status is revoked, after a successful activation the stored
\* counter is one higher.
C13_WriteFailureReported ==
    [][/\ (/\ IsCall("issue_license") /\ io_fault' = io_fault
           /\ ret'.value[1] # NoneId)
          => (/\ ret'.value[1] \in DOMAIN license_database'.licenses
              /\ license_database'.licenses[ret'.value[1]].issued_date = now
              /\ ~password_mismatch(ret'.value[2],
                                    license_database'.licenses[ret'.value[1]]))
       /\ (/\ IsCall("issue_regular_license") /\ io_fault' = io_fault
           /\ ret'.value[1] # NoneId)
          => (/\ ret'.value[1] \in DOMAIN regular_database'.licenses
              /\ regular_database'.licenses[ret'.value[1]].issued_date = now)
       /\ (/\ IsCall("revoke_license") /\ io_fault' = io_fault
           /\ ret'.value[1] = TRUE)
          => (/\ call'.license_id \in DOMAIN license_database'.licenses
              /\ license_database'.licenses[call'.license_id].status = "revoked")
       /\ (/\ IsCall("revoke_regular_license") /\ io_fault' = io_fault
           /\ ret'.value[1] = TRUE)
          => (/\ call'.license_code \in DOMAIN regular_database'.licenses
              /\ regular_database'.licenses[call'.license_code].status = "revoked")
       /\ (/\ IsCall("activate_license") /\ io_fault' = io_fault
           /\ ret'.raised = "none"
           /\ ret'.value[1] = TRUE)
          => (/\ call'.license_id \in DOMAIN license_database'.licenses
              /\ call'.license_id \in DOMAIN Licenses
              /\ license_database'.licenses[call'.license_id].activations
                   = Licenses[call'.license_id].activations + 1)]_vars

\* The persisted status of identifier i.
Revoked(i) == i \in DOMAIN Licenses /\ Licenses[i].status = "revoked"
Active(i) == i \in DOMAIN Licenses /\ Licenses[i].status = "active"

\* C14: once the persisted status of a license is revoked it is never
\* active again, whatever issue and revoke calls follow and however their
\* load-modify-save cycles interleave: no step of the store takes a license
\* from revoked to active.
C14_RevokedStaysRevoked ==
    [][\A i \in RaceIds : Revoked(i) => ~Active(i)']_vars

\* C15: license records are never removed: an identifier present in a store
\* is present after every step of that store, whatever operations run, also
\* when a read of the store fails and falls back to the empty collection and
\* when load-modify-save cycles interleave.
C15_NeverRemoved ==
    [][/\ DOMAIN Licenses \subseteq DOMAIN license_database'.licenses
       /\ DOMAIN RegularLicenses \subseteq DOMAIN regular_database'.licenses]_vars

\* C16: every successful issue returns an identifier that was not a key of
\* its store before, so it adds exactly one record and overwrites none.
C16_FreshIdentifier ==
    [][/\ (IsCall("issue_license") /\ ret'.value[1] # NoneId)
          => (/\ ret'.value[1] \notin DOMAIN Licenses
              /\ Cardinality(DOMAIN license_database'.licenses)
                   = Cardinality(DOMAIN Licenses) + 1
              /\ \A i \in DOMAIN Licenses :
                    /\ i \in DOMAIN license_database'.licenses
                    /\ license_database'.licenses[i] = Licenses[i])
       /\ (IsCall("issue_regular_license") /\ ret'.value[1] # NoneId)
          => (/\ ret'.value[1] \notin DOMAIN RegularLicenses
              /\ Cardinality(DOMAIN regular_database'.licenses)
                   = Cardinality(DOMAIN RegularLicenses) + 1
              /\ \A i \in DOMAIN RegularLicenses :
                    /\ i \in DOMAIN regular_database'.licenses
                    /\ regular_database'.licenses[i] = RegularLicenses[i])]_vars

\* C17: a successful issue_regular_license with expiration_days = d stores a
\* record issued now and expiring at now + d, and verify_regular_license of
\* a stored record that is not revoked returns VALID at every clock value up
\* to its expiration and EXPIRED at every clock value after it.
C17_RegularValidity ==
    [][/\ (IsCall("issue_regular_license") /\ ret'.value[1] # NoneId)
          => LET rec == regular_database'.licenses[ret'.value[1]] IN
             /\ rec.issued_date = now
             /\ rec.expiration_date = now + call'.expiration_days
             /\ rec.status = "active"
       /\ (/\ IsCall("verify_regular_license")
           /\ call'.license_code \in DOMAIN RegularLicenses
           /\ RegularLicenses[call'.license_code].status = "active")
          => ret'.value[1] = IF now <= RegularLicenses[call'.license_code].expiration_date
                             THEN VALID ELSE EXPIRED]_vars

\* C17 witness: verify_regular_license has returned VALID for an active
\* record on the very day it expires, one day or more after it was issued.
C17_Witness ==
    /\ call.name = "verify_regular_license"
    /\ call.license_code \in DOMAIN RegularLicenses
    /\ RegularLicenses[call.license_code].status = "active"
    /\ RegularLicenses[call.license_code].issued_date < now
    /\ RegularLicenses[call.license_code].expiration_date = now
    /\ ret.value[1] = VALID

\* The reason activate_license is to give for a verification that is not
\* VALID.
FailureReason(verified, t) ==
    IF verified[1] = NOT_FOUND THEN "License ID not found"
    ELSE IF verified[1] = EXPIRED THEN "License has expired"
    ELSE IF verified[3][1].status # "active" THEN "License is revoked"
    ELSE "Invalid password"

\* C18: when verify_license does not return VALID for the identifier and the
\* password, activate_license returns (False, reason) with the reason of the
\* specific failure (not found, expired, revoked, invalid password), raises
\* nothing and leaves the store unchanged.
C18_ActivateShortCircuit ==
    [][(/\ IsCall("activate_license")
        /\ verify_license(license_database, now, call'.license_id, call'.password)[1]
             # VALID)
       => (/\ ret'.raised = "none"
           /\ ret'.value = <<FALSE,
                             FailureReason(verify_license(license_database, now,
                                                          call'.license_id,
                                                          call'.password), now)>>
           /\ license_database' = license_database)]_vars

\* The strings the program has written: the fields of the commercial store's
\* records, the arguments of the audit events of the last call, and the
\* cells of the exported Excel file.
WrittenStrings ==
    UNION {{Licenses[i].company_name, Licenses[i].contact_email,
            Licenses[i].commercial_use_case, Licenses[i].password_hash,
            Licenses[i].salt, <<Licenses[i].license_id>>} : i \in DOMAIN Licenses}
    \cup UNION {{emitted[k].args[j] : j \in 1..Len(emitted[k].args)} : k \in 1..Len(emitted)}
    \cup (IF exported = <<>> THEN {}
          ELSE UNION {{exported[1][k].password, exported[1][k].company_name,
                       exported[1][k].contact_email, exported[1][k].use_case,
                       <<exported[1][k].license_id>>} : k \in 1..Len(exported[1])})

\* C19: nothing the program writes (a store record, an audit event, the
\* Excel file of generate_commercial_licenses) is the plaintext password of
\* a stored commercial license: no written string hashes, with a record's
\* salt, to that record's password hash.
C19_NoPlaintext ==
    \A v \in WrittenStrings, i \in DOMAIN Licenses : password_mismatch(v, Licenses[i])

\* What an observer of the audit log learns from the events of one call,
\* apart from the attempted username: their levels and messages.
Observable(events) == [k \in 1..Len(events) |-> <<events[k].level, events[k].msg>>]

\* C20: on an initialized admin, a _verify_admin call with a wrong username
\* and a _verify_admin call with the right username and a wrong password
\* have the same observable result: the same return value and the same
\* audit event apart from the attempted username.
C20_FailureIndistinguishable ==
    [][(/\ admin_credentials # <<>>
        /\ call.name = "_verify_admin"
        /\ call.username # admin_credentials[1].username
        /\ IsCall("_verify_admin")
        /\ call'.username = admin_credentials[1].username
        /\ call'.password # None
        /\ hash_password(call'.password, admin_credentials[1].salt)[1]
             # admin_credentials[1].password_hash)
       => (/\ ret' = ret
           /\ Observable(emitted') = Observable(emitted))]_vars

\* The store as a call finds it when the counter of record i stands at k.
CounterAt(i, k) ==
    [license_database EXCEPT !.licenses[i].activations = k]

C22_ExpiresAfterIssue ==
    [][/\ (IsCall("issue_license") /\ ret'.value[1] # NoneId)
          => LET rec == license_database'.licenses[ret'.value[1]] IN
             rec.expiration_date > rec.issued_date
       /\ (IsCall("issue_regular_license") /\ ret'.value[1] # NoneId)
          => LET rec == regular_database'.licenses[ret'.value[1]] IN
             rec.expiration_date > rec.issued_date]_vars

\* The admin module and the commercial engine.
Next ==
    \/ SetupAdmin
    \/ VerifyAdmin
    \/ IssueLicense
    \/ VerifyLicense
    \/ RevokeLicense
    \/ ActivateLicense
    \/ Tick

Spec == Init /\ [][Next]_vars

\* The admin module and the regular engine.
NextRegular ==
    \/ SetupAdmin
    \/ VerifyAdmin
    \/ IssueRegularLicense
    \/ VerifyRegularLicense
    \/ RevokeRegularLicense
    \/ Tick

SpecRegular == Init /\ [][NextRegular]_vars

\* Issuance, verification and revocation of both engines over both stores.
NextAll ==
    \/ SetupAdmin
    \/ IssueLicense
    \/ VerifyLicense
    \/ RevokeLicense
    \/ IssueRegularLicense
    \/ VerifyRegularLicense
    \/ RevokeRegularLicense
    \/ Tick

SpecAll == Init /\ [][NextAll]_vars

\* Threads activating concurrently over a store an admin fills.
NextConc ==
    \/ SetupAdmin
    \/ IssueLicense
    \/ \E th \in Threads : ActVerify(th)
    \/ \E th \in Threads : ActStep(th)

SpecConc == Init /\ [][NextConc]_vars
\* Mutations of both stores on a file system whose reads and writes can fail.
NextFaults ==
    \/ SetupAdmin
    \/ IssueLicense
    \/ RevokeLicense
    \/ ActivateLicense
    \/ IssueRegularLicense
    \/ RevokeRegularLicense
    \/ SetFault

SpecFaults == Init /\ [][NextFaults]_vars

\* Threads issuing and revoking concurrently over one store, on a file
\* system whose reads and writes can fail.
NextRace ==
    \/ SetupAdmin
    \/ \E th \in Threads : IssueLoad(th)
    \/ \E th \in Threads : RevokeLoad(th)
    \/ \E th \in Threads : StoreWrite(th)
    \/ SetFault

SpecRace == Init /\ [][NextRace]_vars

\* Issuance one by one and in batches with the Excel export.
NextExport ==
    \/ SetupAdmin
    \/ IssueLicense
    \/ GenerateCommercialLicenses
    \/ Tick

SpecExport == Init /\ [][NextExport]_vars
====
